---- MODULE Spec2Model ----
(***************************************************************************)
(* book-box: fetch a reading-activity feed, extract the currently-reading  *)
(* and recently-read books, render two text segments and publish them to a *)
(* gist when the content changed.                                          *)
(*                                                                         *)
(* The repository holds four revisions of the pipeline:                    *)
(*   "index"      src/index.js            (multi-book convention)          *)
(*   "part_000"   src/unnamed/part_000    (simple convention, fail-soft)   *)
(*   "part_001a"  src/unnamed/part_001:1-123   (simple, xml2js, one parse) *)
(*   "part_001b"  src/unnamed/part_001:124-289 (simple, xml2js, two parses)*)
(*                                                                         *)
(* Text is a sequence of tokens.  A token is a word (a run of non-space    *)
(* characters that the code never looks inside), a single punctuation      *)
(* character, or one of the white-space characters " " and NL.  Matching   *)
(* is case-insensitive in the code (toLowerCase, /i); the model writes     *)
(* every phrase in one case.                                               *)
(***************************************************************************)
EXTENDS Integers, Sequences, FiniteSets, TLC

NL == "\n"

\* ------------------------------------------------------------------------
\* Text helpers (JavaScript String methods on token sequences)
\* ------------------------------------------------------------------------

IsWs(c) == c \in {" ", NL}

\* String.prototype.trim (leading part)
RECURSIVE TrimLeft(_)
TrimLeft(s) ==
  IF s = <<>> THEN <<>>
  ELSE IF IsWs(Head(s)) THEN TrimLeft(Tail(s)) ELSE s

\* String.prototype.trim (trailing part)
RECURSIVE TrimRight(_)
TrimRight(s) ==
  IF s = <<>> THEN <<>>
  ELSE IF IsWs(s[Len(s)]) THEN TrimRight(SubSeq(s, 1, Len(s) - 1)) ELSE s

Trim(s) == TrimRight(TrimLeft(s))

\* s.includes(p): p occurs in s as a contiguous run
OccursAt(s, p, i) ==
  /\ i >= 1
  /\ i + Len(p) - 1 <= Len(s)
  /\ SubSeq(s, i, i + Len(p) - 1) = p

Includes(s, p) == \E i \in 1..Len(s) : OccursAt(s, p, i)

\* s.split(':')[0]: everything before the first colon
RECURSIVE BeforeColon(_)
BeforeColon(s) ==
  IF s = <<>> THEN <<>>
  ELSE IF Head(s) = ":" THEN <<>>
  ELSE <<Head(s)>> \o BeforeColon(Tail(s))

\* Array.prototype.join('\n') for an array of texts
RECURSIVE JoinNL(_)
JoinNL(parts) ==
  IF parts = <<>> THEN <<>>
  ELSE IF Len(parts) = 1 THEN parts[1]
  ELSE parts[1] \o <<NL>> \o JoinNL(Tail(parts))

\* length of the maximal run of white space starting at position p of s
RECURSIVE WsRun(_, _)
WsRun(s, p) ==
  IF p > Len(s) THEN 0
  ELSE IF IsWs(s[p]) THEN 1 + WsRun(s, p + 1) ELSE 0

\* number of characters of a token
TokLen(t) ==
  CASE t \in {"Currently", "recently."} -> 9
    [] t \in {"anything", "reading:", "Recently", "(started"} -> 8
    [] t \in {"reading", "moment.", "haven't", "Herbert"} -> 7
    [] t \in {"read:"} -> 5
    [] t \in {"Dune", "read", "Weir", "Part"} -> 4
    [] t \in {"I'm", "not", "the", "Jan", "Feb", "Mar", "Apr", "May", "Jun",
              "Jul", "Aug", "Sep", "Oct", "Nov", "Dec"} -> 3
    [] t \in {"at", "by"} -> 2
    [] OTHER -> 1

RECURSIVE TextLen(_)
TextLen(s) == IF s = <<>> THEN 0 ELSE TokLen(Head(s)) + TextLen(Tail(s))

\* ------------------------------------------------------------------------
\* wordwrap(stop), soft mode, start column 0: the function the code calls
\* wrap.  The text is cut into chunks /(\S+\s+)/ and the chunks are folded
\* into lines; a chunk that would pass column stop opens a new line.
\* ------------------------------------------------------------------------

RECURSIVE NonWsRun(_, _)
NonWsRun(s, p) ==
  IF p > Len(s) THEN 0
  ELSE IF IsWs(s[p]) THEN 0 ELSE 1 + NonWsRun(s, p + 1)

\* text.split(/(\S+\s+)/) without the empty pieces
RECURSIVE Chunks(_)
Chunks(s) ==
  IF s = <<>> THEN <<>>
  ELSE LET nw == NonWsRun(s, 1)
           ws == WsRun(s, nw + 1)
           n  == IF nw = 0 THEN ws ELSE IF ws = 0 THEN Len(s) ELSE nw + ws
       IN  <<SubSeq(s, 1, n)>> \o Chunks(SubSeq(s, n + 1, Len(s)))

\* chunk.split(/\n/)
RECURSIVE SplitNL(_)
SplitNL(s) ==
  IF \A i \in 1..Len(s) : s[i] # NL THEN <<s>>
  ELSE LET i == CHOOSE k \in 1..Len(s) :
                  s[k] = NL /\ \A j \in 1..(k - 1) : s[j] # NL
       IN  <<SubSeq(s, 1, i - 1)>> \o SplitNL(SubSeq(s, i + 1, Len(s)))

MapTrimLeft(xs) == [i \in 1..Len(xs) |-> TrimLeft(xs[i])]

RECURSIVE WrapFold(_, _, _)
WrapFold(chunks, lines, stop) ==
  IF chunks = <<>> THEN lines
  ELSE LET chunk == Head(chunks)
           i     == Len(lines)
           xs    == SplitNL(chunk)
           next  ==
             IF TextLen(lines[i]) + TextLen(chunk) > stop
             THEN [lines EXCEPT ![i] = TrimRight(lines[i])] \o MapTrimLeft(xs)
             ELSE IF Len(xs) > 1
             THEN [lines EXCEPT ![i] = lines[i] \o Head(xs)]
                    \o MapTrimLeft(Tail(xs))
             ELSE [lines EXCEPT ![i] = lines[i] \o chunk]
       IN  WrapFold(Tail(chunks), next, stop)

Wrap(stop, text) == JoinNL(WrapFold(Chunks(text), << <<>> >>, stop))

WrapMain   == 100   \* index.js: wordwrap(100) in main
WrapLegacy == 58    \* wordwrap(58): older revisions and the outer catch

\* the two "nothing found" literals
NotReading ==
  <<"I'm", " ", "not", " ", "reading", " ", "anything", " ", "at", " ",
    "the", " ", "moment.">>
NotRecently ==
  <<"I", " ", "haven't", " ", "read", " ", "anything", " ", "recently.">>

\* ------------------------------------------------------------------------
\* Dates.  A timestamp is a day number, day 1 = Jan 1 2025; the model keeps
\* whole days (the code keeps milliseconds).  2025 and 2026 have no leap
\* day.  Months are numbered from 0 = Jan 2025.
\* ------------------------------------------------------------------------

NoPubDate  == 0      \* item.pubDate missing or empty (falsy)
BadPubDate == 0 - 1  \* item.pubDate is text that new Date() cannot parse

MonthLen(m) ==
  <<31, 28, 31, 30, 31, 30, 31, 31, 30, 31, 30, 31>>[(m % 12) + 1]

MonthAbbr(m) ==
  <<"Jan", "Feb", "Mar", "Apr", "May", "Jun",
    "Jul", "Aug", "Sep", "Oct", "Nov", "Dec">>[(m % 12) + 1]

\* days before the first day of month m
RECURSIVE MonthStart(_)
MonthStart(m) == IF m <= 0 THEN 0 ELSE MonthStart(m - 1) + MonthLen(m - 1)

\* Date.prototype.getMonth (with the year folded in)
RECURSIVE MonthFrom(_, _)
MonthFrom(d, m) ==
  IF d <= MonthStart(m) + MonthLen(m) THEN m ELSE MonthFrom(d, m + 1)

GetMonth(d) == MonthFrom(d, 0)
GetDate(d)  == d - MonthStart(GetMonth(d))

\* new Date(y, m, day): a day past the end of month m runs into the next one
\* (Aug 31 minus six months is "Feb 31" = Mar 3)
SetMonth(d, m) == MonthStart(m) + GetDate(d)

\* sixMonthsAgo.setMonth(sixMonthsAgo.getMonth() - 6)
SixMonthsAgo(today) == SetMonth(today, GetMonth(today) - 6)

Digits(n) == IF n < 10 THEN <<ToString(n)>> ELSE <<ToString(n \div 10), ToString(n % 10)>>

\* toLocaleDateString('en-US', {month: 'short', day: 'numeric', year: 'numeric'})
FormatDate(d) ==
  IF d = BadPubDate THEN <<"Invalid", " ", "Date">>
  ELSE <<MonthAbbr(GetMonth(d)), " ">> \o Digits(GetDate(d)) \o
       <<",", " ", "2", "0", "2", ToString(5 + GetMonth(d) \div 12)>>

\* finishDate >= sixMonthsAgo: false for an Invalid Date (NaN)
OnOrAfter(d, limit) == d # BadPubDate /\ d >= limit

\* ------------------------------------------------------------------------
\* Pattern matching on titles and descriptions.  A match result is a record
\* with a flag and the captures; greedy and lazy quantifiers are resolved in
\* the order a backtracking matcher tries them.
\* ------------------------------------------------------------------------

Quotes == {"'", "\""}

NoNL(s, from, to) == \A k \in from..to : s[k] # NL

Min(S) == CHOOSE x \in S : \A y \in S : x <= y
Max(S) == CHOOSE x \in S : \A y \in S : x >= y

IsCurrentlyReading == <<"is", " ", "currently", " ", "reading">>
CurrentlyReadingPhrase == <<"currently", " ", "reading">>
AddedQuote == <<"added", " ", "'">>

\* title.match(/<phrase>\s+['"](.+?)['"]$/i): positions where the phrase
\* starts and the rest of the title is white space, a quote, a non-empty
\* capture without a line break, and a closing quote at the very end
QuotedStarts(t, phrase) ==
  {i \in 1..Len(t) :
     /\ OccursAt(t, phrase, i)
     /\ LET p == i + Len(phrase)
            r == WsRun(t, p)
            q == p + r
        IN  /\ r >= 1
            /\ q + 2 <= Len(t)
            /\ t[q] \in Quotes
            /\ t[Len(t)] \in Quotes
            /\ NoNL(t, q + 1, Len(t) - 1)}

MatchQuoted(t, phrase) ==
  LET S == QuotedStarts(t, phrase)
  IN  IF S = {} THEN [matched |-> FALSE, cap |-> <<>>]
      ELSE LET i == Min(S)
               q == i + Len(phrase) + WsRun(t, i + Len(phrase))
           IN  [matched |-> TRUE, cap |-> SubSeq(t, q + 1, Len(t) - 1)]

\* first position at or after p that holds "<", or Len(s) + 1
RECURSIVE NextLt(_, _)
NextLt(s, p) ==
  IF p > Len(s) THEN p ELSE IF s[p] = "<" THEN p ELSE NextLt(s, p + 1)

\* description.match(/by\s+([^<]+)/i)
ByStarts(d) ==
  {i \in 1..Len(d) :
     /\ d[i] = "by"
     /\ LET r == WsRun(d, i + 1)
            p == i + 1 + r
        IN  /\ r >= 1
            /\ \/ (p <= Len(d) /\ d[p] # "<")
               \/ r >= 2}

MatchAuthor(d) ==
  LET S == ByStarts(d)
  IN  IF S = {} THEN [matched |-> FALSE, cap |-> <<>>]
      ELSE LET i == Min(S)
               r == WsRun(d, i + 1)
               p == IF i + 1 + r <= Len(d) /\ d[i + 1 + r] # "<"
                    THEN i + 1 + r ELSE i + r
           IN  [matched |-> TRUE, cap |-> SubSeq(d, p, NextLt(d, p) - 1)]

\* /\s+by\s+(.+?)(?:\s|$)/ continuing a title right after position b
ByTail(t, b) ==
  LET r1 == WsRun(t, b + 1)
      by == b + 1 + r1
      r2 == WsRun(t, by + 1)
      p  == by + 1 + r2
      \* shorter white-space runs that leave a space (not a line break) to
      \* capture, tried after the maximal run left nothing to capture
      back == {k \in 1..(r2 - 1) : t[by + 1 + k] # NL}
  IN  IF ~(r1 >= 1 /\ by <= Len(t) /\ t[by] = "by" /\ r2 >= 1)
      THEN [matched |-> FALSE, cap |-> <<>>]
      ELSE IF p <= Len(t)
      THEN [matched |-> TRUE, cap |-> SubSeq(t, p, p + NonWsRun(t, p) - 1)]
      ELSE IF back # {}
      THEN [matched |-> TRUE, cap |-> <<t[by + 1 + Max(back)]>>]
      ELSE [matched |-> FALSE, cap |-> <<>>]

\* ends b of a lazy capture (.+?) that starts at c and is followed by ByTail
Cap1Ends(t, c) ==
  {b \in c..Len(t) : NoNL(t, c, b) /\ ByTail(t, b).matched}

\* length of the maximal run of [:\s] starting at position p
RECURSIVE SepRun(_, _)
SepRun(s, p) ==
  IF p > Len(s) THEN 0
  ELSE IF IsWs(s[p]) \/ s[p] = ":" THEN 1 + SepRun(s, p + 1) ELSE 0

\* capture starts reachable at i through a prefix word and [:\s]+
PrefixedStarts(t, i, prefixes) ==
  {c \in 1..Len(t) :
     \E ph \in prefixes :
       /\ OccursAt(t, ph, i)
       /\ c - (i + Len(ph)) \in 1..SepRun(t, i + Len(ph))
       /\ Cap1Ends(t, c) # {}}

\* title.match(/(?:<prefix>[:\s]+)(.+?)\s+by\s+(.+?)(?:\s|$)/i); the prefix
\* group is optional when optional = TRUE
ByMatchAt(t, i, prefixes, optional) ==
  LET P == PrefixedStarts(t, i, prefixes)
  IN  IF P # {} THEN Max(P)
      ELSE IF optional /\ Cap1Ends(t, i) # {} THEN i
      ELSE 0

MatchBy(t, prefixes, optional) ==
  LET S == {i \in 1..Len(t) : ByMatchAt(t, i, prefixes, optional) # 0}
  IN  IF S = {} THEN [matched |-> FALSE, title |-> <<>>, author |-> <<>>]
      ELSE LET c == ByMatchAt(t, Min(S), prefixes, optional)
               b == Min(Cap1Ends(t, c))
           IN  [matched |-> TRUE,
                title   |-> SubSeq(t, c, b),
                author  |-> ByTail(t, b).cap]

\* ------------------------------------------------------------------------
\* Fact extraction: the scan over the feed items
\* ------------------------------------------------------------------------

\* substrings of a word that the code's includes() tests can hit
Substrings(tok) ==
  IF tok = "reading" THEN {"reading", "read"} ELSE {tok}

\* text.toLowerCase().includes(w) for a single word w
ContainsWord(t, w) == \E i \in 1..Len(t) : w \in Substrings(t[i])

\* item.contentSnippet || item.content || item.description ||
\* (item['content:encoded'] || '')
Description(item) ==
  IF item.contentSnippet # <<>> THEN item.contentSnippet
  ELSE IF item.content # <<>> THEN item.content
  ELSE IF item.description # <<>> THEN item.description
  ELSE item.contentEncoded

\* get(item, 'description[0]', '') of the xml2js revisions
DescriptionXml(item) == item.description

NoFacts ==
  [title |-> <<>>, author |-> <<>>, startDate |-> <<>>, books |-> <<>>]

\* index.js: the conditions under which an item sets the currently-reading
\* fact
CurrentRuleIndex(item) ==
  /\ Includes(Trim(item.title), IsCurrentlyReading)
  /\ MatchQuoted(Trim(item.title), IsCurrentlyReading).matched
  /\ MatchAuthor(Description(item)).matched

\* index.js: the branch that records the currently-reading fact
CurrentIndex(st, item) ==
  IF CurrentRuleIndex(item)
  THEN [st EXCEPT
          !.title = Trim(MatchQuoted(Trim(item.title), IsCurrentlyReading).cap),
          !.author = Trim(MatchAuthor(Description(item)).cap),
          !.startDate = IF item.pubDate # NoPubDate
                        THEN FormatDate(item.pubDate)
                        ELSE st.startDate]
  ELSE st

\* index.js: the conditions under which an item is a finished book, apart
\* from the six-month window
FinishedRuleIndex(item) ==
  /\ Includes(Trim(item.title), AddedQuote)
  /\ ContainsWord(Description(item), "stars")
  /\ MatchQuoted(Trim(item.title), <<"added">>).matched
  /\ MatchAuthor(Description(item)).matched
  /\ item.pubDate # NoPubDate

\* index.js: the record pushed on recentlyReadBooks
BookOf(item) ==
  [title   |-> Trim(MatchQuoted(Trim(item.title), <<"added">>).cap),
   author  |-> Trim(MatchAuthor(Description(item)).cap),
   date    |-> FormatDate(item.pubDate),
   pubDate |-> item.pubDate]

\* variation: the window test is dropped
FinishedIndexNoWindow(st, item, limit) ==
  IF FinishedRuleIndex(item)
  THEN [st EXCEPT !.books = Append(@, BookOf(item))]
  ELSE st

\* index.js: the branch that collects a finished book
FinishedIndex(st, item, limit) ==
  IF FinishedRuleIndex(item) /\ OnOrAfter(item.pubDate, limit)
  THEN [st EXCEPT !.books = Append(@, BookOf(item))]
  ELSE st

\* index.js: for (const item of items) { ... }, no break
RECURSIVE ScanIndex(_, _, _)
ScanIndex(items, st, limit) ==
  IF items = <<>> THEN st
  ELSE ScanIndex(Tail(items),
                 FinishedIndex(CurrentIndex(st, Head(items)), Head(items), limit),
                 limit)

\* the title and description a simple-convention revision reads from an item
TitleOf(v, item) == IF v = "part_000" THEN Trim(item.title) ELSE item.title
DescOf(v, item)  == IF v = "part_000" THEN Description(item) ELSE DescriptionXml(item)

\* simple convention: the conditions under which an item sets the
\* currently-reading fact
CurrentRuleSimple(v, item) ==
  /\ \/ Includes(TitleOf(v, item), CurrentlyReadingPhrase)
     \/ Includes(DescOf(v, item), CurrentlyReadingPhrase)
  /\ MatchBy(TitleOf(v, item), {CurrentlyReadingPhrase}, TRUE).matched

\* simple convention: the branch that records the currently-reading fact
CurrentSimple(v, st, item) ==
  LET m == MatchBy(TitleOf(v, item), {CurrentlyReadingPhrase}, TRUE)
  IN  IF CurrentRuleSimple(v, item)
      THEN [st EXCEPT !.title = Trim(m.title), !.author = Trim(m.author)]
      ELSE st

\* simple convention: the match that records the finished book and breaks
FinishedSimple(v, item) ==
  LET title == TitleOf(v, item)
  IN  IF /\ ContainsWord(title, "finished") \/ ContainsWord(title, "read")
         /\ ~Includes(title, CurrentlyReadingPhrase)
      THEN MatchBy(title, {<<"finished">>, <<"read">>}, FALSE)
      ELSE [matched |-> FALSE, title |-> <<>>, author |-> <<>>]

\* simple convention: the loop, which ends at the first finished book
RECURSIVE ScanSimple(_, _, _)
ScanSimple(v, items, st) ==
  IF items = <<>> THEN st
  ELSE LET st1 == CurrentSimple(v, st, Head(items))
           f   == FinishedSimple(v, Head(items))
       IN  IF f.matched
           THEN [st1 EXCEPT !.books = <<[title   |-> Trim(f.title),
                                         author  |-> Trim(f.author),
                                         date    |-> <<>>,
                                         pubDate |-> NoPubDate]>>]
           ELSE ScanSimple(v, Tail(items), st1)

Extract(v, items, today) ==
  IF v = "index" THEN ScanIndex(items, NoFacts, SixMonthsAgo(today))
  ELSE ScanSimple(v, items, NoFacts)

\* ------------------------------------------------------------------------
\* Status formatting
\* ------------------------------------------------------------------------

\* recentlyReadBooks.sort((a, b) => b.pubDate - a.pubDate), a stable sort
RECURSIVE InsertDesc(_, _)
InsertDesc(sorted, b) ==
  IF sorted = <<>> THEN <<b>>
  ELSE IF Head(sorted).pubDate >= b.pubDate
       THEN <<Head(sorted)>> \o InsertDesc(Tail(sorted), b)
       ELSE <<b>> \o sorted

RECURSIVE SortDesc(_)
SortDesc(books) ==
  IF books = <<>> THEN <<>>
  ELSE InsertDesc(SortDesc(SubSeq(books, 1, Len(books) - 1)), books[Len(books)])

\* `Currently reading: ${title.split(':')[0]} by ${author}...\n`
CurrentLine(v, st) ==
  IF st.title # <<>> /\ st.author # <<>>
  THEN <<"Currently", " ", "reading:", " ">> \o BeforeColon(st.title)
         \o <<" ", "by", " ">> \o st.author
         \o (IF v = "index" /\ st.startDate # <<>>
             THEN <<" ", "(started", " ">> \o st.startDate \o <<")">>
             ELSE <<>>)
         \o <<NL>>
  ELSE NotReading \o <<NL>>

\* `Recently read: ${book.title.split(':')[0]} by ${book.author} (${book.date})`
BookLine(v, book) ==
  <<"Recently", " ", "read:", " ">> \o BeforeColon(book.title)
    \o <<" ", "by", " ">> \o book.author
    \o (IF v = "index" THEN <<" ", "(">> \o book.date \o <<")">> ELSE <<>>)

\* the books the recently-read segment renders, in rendering order
RenderedBooks(v, st) ==
  IF v = "index" THEN SortDesc(st.books)
  ELSE IF st.books # <<>> /\ st.books[1].title # <<>> /\ st.books[1].author # <<>>
       THEN st.books
       ELSE <<>>

RecentBlock(v, st) ==
  LET bs == RenderedBooks(v, st)
  IN  IF bs = <<>> THEN NotRecently
      ELSE JoinNL([i \in 1..Len(bs) |-> BookLine(v, bs[i])])

MainWrap(v) == IF v = "index" THEN WrapMain ELSE WrapLegacy

\* readingStatus.join('\n') for [wrap(currentlyReading), wrap(recentlyRead)]
Snapshot(width, current, recent) ==
  JoinNL(<<Wrap(width, current), Wrap(width, recent)>>)

Render(v, st) == Snapshot(MainWrap(v), CurrentLine(v, st), RecentBlock(v, st))

\* the snapshot of the fail-soft paths
Fallback(width) == Snapshot(width, NotReading \o <<NL>>, NotRecently)

\* ------------------------------------------------------------------------
\* XML sanitization.  A feed body is a sequence of characters; the two
\* character-data delimiters are written "<" "![CDATA[" and "]]" ">", the
\* middle parts being single symbols that are neither word characters nor
\* angle brackets.
\* ------------------------------------------------------------------------

Letters   == {"a", "g", "l", "m", "p", "t", "x"}
DigitChars == {"1"}
IsAlnum(c) == c \in Letters \cup DigitChars
IsWordCh(c) == IsAlnum(c) \/ c = "_"
IsEntityCh(c) == IsAlnum(c) \/ c = "#"

Amp == <<"&", "a", "m", "p", ";">>
Lt  == <<"&", "l", "t", ";">>
Gt  == <<"&", "g", "t", ";">>
CdataOpen  == <<"<", "![CDATA[">>
CdataClose == <<"]]", ">">>
Unbounded == 0 - 1   \* no {m,n} bound on a character run

\* length of the maximal run of [a-zA-Z0-9#] starting at position p
RECURSIVE EntityRun(_, _)
EntityRun(s, p) ==
  IF p > Len(s) THEN 0
  ELSE IF IsEntityCh(s[p]) THEN 1 + EntityRun(s, p + 1) ELSE 0

\* the lookahead (?![a-zA-Z0-9#]+;) or (?![a-zA-Z0-9#]{1,7};) fails at
\* position p, i.e. an entity-like run and a semicolon follow
EntityAhead(s, p, limit) ==
  LET k == EntityRun(s, p)
  IN  /\ k >= 1
      /\ limit = Unbounded \/ k <= limit
      /\ p + k <= Len(s)
      /\ s[p + k] = ";"

\* s.replace(/&(?![a-zA-Z0-9#]+;)/g, '&amp;')
RECURSIVE EscapeAmpFrom(_, _, _)
EscapeAmpFrom(s, p, limit) ==
  IF p > Len(s) THEN <<>>
  ELSE (IF s[p] = "&" /\ ~EntityAhead(s, p + 1, limit) THEN Amp ELSE <<s[p]>>)
         \o EscapeAmpFrom(s, p + 1, limit)

EscapeAmp(s, limit) == EscapeAmpFrom(s, 1, limit)

EntityLimit == 7   \* part_001: {1,7}

RECURSIVE WordRun(_, _)
WordRun(s, p) ==
  IF p > Len(s) THEN 0
  ELSE IF IsWordCh(s[p]) THEN 1 + WordRun(s, p + 1) ELSE 0

\* /<(\w+)([^>]*?)(?:\s*\/)?>([^<]*)<\/\1>/ tried at position i with a tag of
\* w characters and a attribute characters: the position of the ">" that
\* ends the opening tag, or 0
OpenEnd(s, i, w, a) ==
  LET p == i + 1 + w + a
      r == WsRun(s, p)
  IN  IF ~(\A k \in (i + 1 + w)..(p - 1) : k <= Len(s) /\ s[k] # ">") THEN 0
      ELSE IF p + r + 1 <= Len(s) /\ s[p + r] = "/" /\ s[p + r + 1] = ">"
      THEN p + r + 1
      ELSE IF p <= Len(s) /\ s[p] = ">" THEN p
      ELSE 0

\* the element closes: content up to the next "<", then "</tag>"
Closes(s, i, w, g) ==
  LET L == NextLt(s, g + 1)
  IN  /\ g # 0
      /\ L + 2 + w <= Len(s)
      /\ s[L + 1] = "/"
      /\ SubSeq(s, L + 2, L + 1 + w) = SubSeq(s, i + 1, i + w)
      /\ s[L + 2 + w] = ">"

\* the pairs <<w, a>> for which the pattern matches at i
TagMatches(s, i) ==
  IF s[i] # "<" THEN {}
  ELSE {wa \in (1..WordRun(s, i + 1)) \X (0..Len(s)) :
          Closes(s, i, wa[1], OpenEnd(s, i, wa[1], wa[2]))}

\* the match the engine finds first: longest tag, then shortest attributes
FirstTagMatch(s, i) ==
  LET M == TagMatches(s, i)
      w == Max({wa[1] : wa \in M})
      a == Min({wa[2] : wa \in {x \in M : x[1] = w}})
  IN  <<w, a>>

\* cleaned.replace(/<(\w+)([^>]*?)(?:\s*\/)?>([^<]*)<\/\1>/g, ...)
RECURSIVE FixTagsFrom(_, _)
FixTagsFrom(s, i) ==
  IF i > Len(s) THEN <<>>
  ELSE IF TagMatches(s, i) = {} THEN <<s[i]>> \o FixTagsFrom(s, i + 1)
  ELSE LET wa  == FirstTagMatch(s, i)
           w   == wa[1]
           a   == wa[2]
           g   == OpenEnd(s, i, w, a)
           L   == NextLt(s, g + 1)
           tag == SubSeq(s, i + 1, i + w)
       IN  <<"<">> \o tag \o SubSeq(s, i + 1 + w, i + w + a) \o <<">">>
             \o EscapeAmp(SubSeq(s, g + 1, L - 1), Unbounded)
             \o <<"<", "/">> \o tag \o <<">">>
             \o FixTagsFrom(s, L + 3 + w)

\* index.js, part_000: sanitizeXML(xml)
sanitizeXML(xml) == FixTagsFrom(EscapeAmp(xml, Unbounded), 1)

\* /(?<![<\/\w])\s*>\s*(?![<\w])/ tried at position j: the last position of
\* the match, or 0
LoneGtEnd(s, j) ==
  LET g  == j + WsRun(s, j)
      r2 == WsRun(s, g + 1)
      e  == g + 1 + r2
  IN  IF j > 1 /\ (s[j - 1] \in {"<", "/"} \/ IsWordCh(s[j - 1])) THEN 0
      ELSE IF ~(g <= Len(s) /\ s[g] = ">") THEN 0
      ELSE IF e > Len(s) \/ ~(s[e] = "<" \/ IsWordCh(s[e])) THEN e - 1
      ELSE IF r2 >= 1 THEN e - 2
      ELSE 0

\* xmlContent.replace(/(?<![<\/\w])\s*>\s*(?![<\w])/g, '&gt;')
RECURSIVE EscapeLoneGtFrom(_, _)
EscapeLoneGtFrom(s, j) ==
  IF j > Len(s) THEN <<>>
  ELSE IF LoneGtEnd(s, j) # 0 THEN Gt \o EscapeLoneGtFrom(s, LoneGtEnd(s, j) + 1)
  ELSE <<s[j]>> \o EscapeLoneGtFrom(s, j + 1)

\* part_001, first revision: the sanitization before the only parse
SanitizeLightA(xml) == EscapeAmp(xml, EntityLimit)

\* part_001, second revision: the sanitization before the first parse (the
\* two tag replaces in between write back what they matched)
SanitizeLightB(xml) == EscapeLoneGtFrom(EscapeAmp(xml, EntityLimit), 1)

\* s.replace(/</g, '&lt;').replace(/>/g, '&gt;')
RECURSIVE EscapeAngles(_)
EscapeAngles(s) ==
  IF s = <<>> THEN <<>>
  ELSE (IF Head(s) = "<" THEN Lt ELSE IF Head(s) = ">" THEN Gt ELSE <<Head(s)>>)
         \o EscapeAngles(Tail(s))

\* first position at or after p that holds "&", or Len(s) + 1
RECURSIVE NextAmp(_, _)
NextAmp(s, p) ==
  IF p > Len(s) THEN p ELSE IF s[p] = "&" THEN p ELSE NextAmp(s, p + 1)

\* /&lt;(\/?[a-zA-Z][^&]*?)&gt;/ tried at i: position of the closing &gt;, or 0
TagEntityEnd(s, i) ==
  LET p  == i + Len(Lt)
      p1 == IF p <= Len(s) /\ s[p] = "/" THEN p + 1 ELSE p
      q  == NextAmp(s, p1 + 1)
  IN  IF OccursAt(s, Lt, i) /\ p1 <= Len(s) /\ s[p1] \in Letters
         /\ OccursAt(s, Gt, q)
      THEN q ELSE 0

\* s.replace(/&lt;(\/?[a-zA-Z][^&]*?)&gt;/g, '<$1>')
RECURSIVE RestoreTagsFrom(_, _)
RestoreTagsFrom(s, i) ==
  IF i > Len(s) THEN <<>>
  ELSE IF TagEntityEnd(s, i) # 0
  THEN <<"<">> \o SubSeq(s, i + Len(Lt), TagEntityEnd(s, i) - 1) \o <<">">>
         \o RestoreTagsFrom(s, TagEntityEnd(s, i) + Len(Gt))
  ELSE <<s[i]>> \o RestoreTagsFrom(s, i + 1)

\* /&lt;!\[CDATA\[(.*?)\]\]&gt;/ tried at i: positions of a closing ]]&gt;
CdataEnds(s, i) ==
  IF ~(OccursAt(s, Lt, i) /\ i + Len(Lt) <= Len(s) /\ s[i + Len(Lt)] = "![CDATA[")
  THEN {}
  ELSE {q \in (i + Len(Lt) + 1)..Len(s) :
          /\ s[q] = "]]"
          /\ OccursAt(s, Gt, q + 1)
          /\ NoNL(s, i + Len(Lt) + 1, q - 1)}

\* s.replace(/&lt;!\[CDATA\[(.*?)\]\]&gt;/g, '<![CDATA[$1]]>')
RECURSIVE RestoreCdataFrom(_, _)
RestoreCdataFrom(s, i) ==
  IF i > Len(s) THEN <<>>
  ELSE IF CdataEnds(s, i) # {}
  THEN LET q == Min(CdataEnds(s, i))
       IN  CdataOpen \o SubSeq(s, i + Len(Lt) + 1, q - 1) \o CdataClose
             \o RestoreCdataFrom(s, q + 1 + Len(Gt))
  ELSE <<s[i]>> \o RestoreCdataFrom(s, i + 1)

\* part_001, second revision: the cleaning after a failed first parse
SanitizeAggressive(xmlContent) ==
  RestoreCdataFrom(
    RestoreTagsFrom(EscapeAngles(EscapeAmp(xmlContent, EntityLimit)), 1), 1)

\* ------------------------------------------------------------------------
\* Inputs of the model
\* ------------------------------------------------------------------------

Variants == {"index", "part_000", "part_001a", "part_001b"}
FailSoft == {"index", "part_000"}   \* revisions that publish a fallback

Item(t, snippet, desc, date) ==
  [title |-> t, contentSnippet |-> snippet, content |-> <<>>,
   description |-> desc, contentEncoded |-> <<>>, pubDate |-> date]

\* the clock: Aug 31 2026 (whose "Feb 31" is Mar 3) and two later days
Aug31 == MonthStart(19) + 31
Sep15 == MonthStart(20) + 15
Oct20 == MonthStart(21) + 20
NowDates == {Aug31, Sep15, Oct20}

\* timestamps of entries: before every cutoff, between the cutoffs, recent
Feb10 == MonthStart(13) + 10
Mar10 == MonthStart(14) + 10
Apr05 == MonthStart(15) + 5
Aug01 == MonthStart(19) + 1

ByHerbert == <<"by", " ", "Herbert">>
ByWeirStars == <<"by", " ", "Weir", "<", "5", " ", "stars">>

ReadingDune ==
  Item(<<"Bob", " ">> \o IsCurrentlyReading \o <<" ", "'", "Dune", "'">>,
       ByHerbert, <<>>, Aug01)
AddedDune(date) ==
  Item(<<"Bob", " ", "added", " ", "'", "Dune", ":", " ", "Part", "'">>,
       ByWeirStars, <<>>, date)
SimpleReading ==
  Item(CurrentlyReadingPhrase \o <<":", " ", "Dune", " ", "by", " ", "Herbert">>,
       <<>>, <<>>, NoPubDate)
SimpleFinished ==
  Item(<<"finished", ":", " ", "Part", " ", "by", " ", "Weir">>,
       <<>>, <<>>, NoPubDate)

\* feeds the provider can serve in the publishing model
Feeds ==
  { <<>>,
    <<ReadingDune, AddedDune(Mar10)>>,
    <<AddedDune(Apr05), AddedDune(Feb10)>>,
    <<SimpleFinished, SimpleReading>> }

\* the feed body served: a self-closing tag, a bare ampersand, a lone ">"
Bodies == { <<"<", "a", "/", ">", "&", " ", ">", "<", "/", "a", ">">> }

\* the remote document: an ordered list of files
File(name, text) == [filename |-> name, content |-> text]
Stale == <<"old">>
RemoteDocs ==
  { [files |-> <<>>],
    [files |-> <<File("f1", Stale)>>],
    [files |-> <<File("f1", Fallback(WrapLegacy)), File("f2", Stale)>>] }

Runs == {1, 2}
MaxEdits == 1   \* edits of the remote document by other parties

\* ------------------------------------------------------------------------
\* State
\* ------------------------------------------------------------------------

VARIABLES
  variant,      \* which revision of the program runs
  env,          \* GIST_ID and GH_TOKEN are both set
  now,          \* the clock, read by new Date()
  feedBody,     \* the document the feed URL serves
  feed,         \* the items a successful parse of that document yields
  gist,         \* the remote document
  edits,        \* number of edits made by other parties so far
  pc,           \* per run: position in main / updateGist
  body,         \* per run: resp.body
  xml,          \* per run: the text handed to the parser
  items,        \* per run: feed.items
  facts,        \* per run: the extracted facts
  status,       \* per run: readingStatus.join('\n') of the current call
  caller,       \* per run: the call site of the current updateGist call
  fetched,      \* per run: the document returned by gists.get
  filename,     \* per run: Object.keys(gist.data.files)[0]
  limit,        \* per run: sixMonthsAgo, kept after the run
  writes,       \* per run: number of gists.update calls issued
  written,      \* per run: content of the last gists.update call
  readFailed,   \* per run: a gists.get call was rejected
  fetchFailed,  \* per run: got() was rejected
  parseFailed,  \* per run: number of rejected parse attempts
  result        \* per run: how the last updateGist call ended

vars ==
  <<variant, env, now, feedBody, feed, gist, edits, pc, body, xml, items,
    facts, status, caller, fetched, filename, limit, writes, written,
    readFailed, fetchFailed, parseFailed, result>>

config == <<variant, env, feedBody, feed>>
locals == <<body, xml, items, facts, status, caller, fetched, filename>>
feedVars == <<body, xml, items, facts, limit, fetchFailed, parseFailed>>
callVars == <<status, caller>>
readVars == <<fetched, filename, readFailed>>
writeVars == <<writes, written>>

InitRuns ==
  /\ edits = 0
  /\ pc = [r \in Runs |-> "idle"]
  /\ body = [r \in Runs |-> <<>>]
  /\ xml = [r \in Runs |-> <<>>]
  /\ items = [r \in Runs |-> <<>>]
  /\ facts = [r \in Runs |-> NoFacts]
  /\ status = [r \in Runs |-> <<>>]
  /\ caller = [r \in Runs |-> "none"]
  /\ fetched = [r \in Runs |-> [files |-> <<>>]]
  /\ filename = [r \in Runs |-> ""]
  /\ limit = [r \in Runs |-> 0]
  /\ writes = [r \in Runs |-> 0]
  /\ written = [r \in Runs |-> <<>>]
  /\ readFailed = [r \in Runs |-> FALSE]
  /\ fetchFailed = [r \in Runs |-> FALSE]
  /\ parseFailed = [r \in Runs |-> 0]
  /\ result = [r \in Runs |-> "none"]

\* The feed is the same at every fetch of a behaviour; whether a fetch or a
\* parse succeeds is decided anew each time.
Init ==
  /\ variant \in Variants
  /\ env \in BOOLEAN
  /\ now \in NowDates
  /\ feedBody \in Bodies
  /\ feed \in Feeds
  /\ gist \in RemoteDocs
  /\ InitRuns

\* ------------------------------------------------------------------------
\* main()
\* ------------------------------------------------------------------------

\* variation: the updateGist call of the outer catch block is not wrapped in
\* its own try/catch, so what it throws leaves main
AfterThrowUnguarded(v, site) ==
  IF v \in FailSoft THEN (IF site # "catch" THEN "catch" ELSE "threw")
  ELSE "return"

\* where control goes when an exception leaves the try block of main, or
\* leaves updateGist: the fail-soft revisions run the outer catch block, and
\* swallow what its own updateGist call throws; the others only log.  In
\* both cases main then returns.
AfterThrow(v, site) ==
  IF v \in FailSoft /\ site # "catch" THEN "catch" ELSE "return"

\* the text the first parse attempt receives
FirstParseInput(v, b) ==
  IF v = "part_001a" THEN SanitizeLightA(b)
  ELSE IF v = "part_001b" THEN SanitizeLightB(b)
  ELSE b

\* the text the second parse attempt receives
SecondParseInput(v, b, x) ==
  IF v = "part_001b" THEN SanitizeAggressive(x) ELSE sanitizeXML(b)

\* runs of one process are sequential: the next starts when the last ended
Start(r) ==
  /\ pc[r] = "idle"
  /\ \A q \in Runs : q < r => pc[q] = "done"
  /\ pc' = [pc EXCEPT ![r] = "fetch"]
  /\ UNCHANGED <<config, now, gist, edits, feedVars, callVars, readVars,
                 writeVars, result>>

\* const resp = await got(rssFeedUrl, ...) resolves
FetchOk(r) ==
  /\ pc[r] = "fetch"
  /\ body' = [body EXCEPT ![r] = feedBody]
  /\ xml' = [xml EXCEPT ![r] = FirstParseInput(variant, feedBody)]
  /\ pc' = [pc EXCEPT ![r] = "parse1"]
  /\ UNCHANGED <<config, now, gist, edits, items, facts, limit, fetchFailed,
                 parseFailed, callVars, readVars, writeVars, result>>

\* got() rejects after its retries
FetchFail(r) ==
  /\ pc[r] = "fetch"
  /\ fetchFailed' = [fetchFailed EXCEPT ![r] = TRUE]
  /\ pc' = [pc EXCEPT ![r] = AfterThrow(variant, "main")]
  /\ UNCHANGED <<config, now, gist, edits, body, xml, items, facts, limit,
                 parseFailed, callVars, readVars, writeVars, result>>

\* a parse attempt resolves with the feed
ParseOk(r) ==
  /\ pc[r] \in {"parse1", "parse2"}
  /\ items' = [items EXCEPT ![r] = feed]
  /\ pc' = [pc EXCEPT ![r] = "extract"]
  /\ UNCHANGED <<config, now, gist, edits, body, xml, facts, limit,
                 fetchFailed, parseFailed, callVars, readVars, writeVars,
                 result>>

\* the first parse attempt rejects: retry on sanitized text (the first
\* revision of part_001 has no retry)
Parse1Fail(r) ==
  /\ pc[r] = "parse1"
  /\ parseFailed' = [parseFailed EXCEPT ![r] = 1]
  /\ IF variant = "part_001a"
     THEN /\ pc' = [pc EXCEPT ![r] = AfterThrow(variant, "main")]
          /\ xml' = xml
     ELSE /\ pc' = [pc EXCEPT ![r] = "parse2"]
          /\ xml' = [xml EXCEPT ![r] = SecondParseInput(variant, body[r], xml[r])]
  /\ UNCHANGED <<config, now, gist, edits, body, items, facts, limit,
                 fetchFailed, callVars, readVars, writeVars, result>>

\* the second parse attempt rejects: the fail-soft revisions call updateGist
\* with the fallback from the inner catch block
Parse2Fail(r) ==
  /\ pc[r] = "parse2"
  /\ parseFailed' = [parseFailed EXCEPT ![r] = 2]
  /\ IF variant \in FailSoft
     THEN /\ status' = [status EXCEPT ![r] = Fallback(MainWrap(variant))]
          /\ caller' = [caller EXCEPT ![r] = "parseFail"]
          /\ pc' = [pc EXCEPT ![r] = "get"]
     ELSE /\ pc' = [pc EXCEPT ![r] = AfterThrow(variant, "main")]
          /\ UNCHANGED callVars
  /\ UNCHANGED <<config, now, gist, edits, body, xml, items, facts, limit,
                 fetchFailed, readVars, writeVars, result>>

\* the scan, the formatting and the call updateGist([wrap(..), wrap(..)])
ExtractAndFormat(r) ==
  /\ pc[r] = "extract"
  /\ limit' = [limit EXCEPT ![r] = IF variant = "index" THEN SixMonthsAgo(now) ELSE @]
  /\ facts' = [facts EXCEPT ![r] = Extract(variant, items[r], now)]
  /\ status' = [status EXCEPT ![r] = Render(variant, Extract(variant, items[r], now))]
  /\ caller' = [caller EXCEPT ![r] = "main"]
  /\ pc' = [pc EXCEPT ![r] = "get"]
  /\ UNCHANGED <<config, now, gist, edits, body, xml, items, fetchFailed,
                 parseFailed, readVars, writeVars, result>>

\* the outer catch block of the fail-soft revisions
CatchFallback(r) ==
  /\ pc[r] = "catch"
  /\ status' = [status EXCEPT ![r] = Fallback(WrapLegacy)]
  /\ caller' = [caller EXCEPT ![r] = "catch"]
  /\ pc' = [pc EXCEPT ![r] = "get"]
  /\ UNCHANGED <<config, now, gist, edits, feedVars, readVars, writeVars,
                 result>>

\* main returns to the top-level caller; its locals are gone
Finish(r) ==
  /\ pc[r] = "return"
  /\ pc' = [pc EXCEPT ![r] = "done"]
  /\ body' = [body EXCEPT ![r] = <<>>]
  /\ xml' = [xml EXCEPT ![r] = <<>>]
  /\ items' = [items EXCEPT ![r] = <<>>]
  /\ facts' = [facts EXCEPT ![r] = NoFacts]
  /\ status' = [status EXCEPT ![r] = <<>>]
  /\ caller' = [caller EXCEPT ![r] = "none"]
  /\ fetched' = [fetched EXCEPT ![r] = [files |-> <<>>]]
  /\ filename' = [filename EXCEPT ![r] = ""]
  /\ UNCHANGED <<config, now, gist, edits, limit, fetchFailed, parseFailed,
                 readFailed, writeVars, result>>

\* ------------------------------------------------------------------------
\* updateGist(readingStatus)
\* ------------------------------------------------------------------------

\* updateGist returns to its caller, which has nothing left to do
Return(r, how) ==
  /\ pc' = [pc EXCEPT ![r] = "return"]
  /\ result' = [result EXCEPT ![r] = how]

\* an exception leaves updateGist
Throw(r, how) ==
  /\ pc' = [pc EXCEPT ![r] = AfterThrow(variant, caller[r])]
  /\ result' = [result EXCEPT ![r] = how]

\* the remote document after gists.update({files: {[name]: {content}}})
UpdateFile(doc, name, text) ==
  IF \E i \in 1..Len(doc.files) : doc.files[i].filename = name
  THEN [files |-> [i \in 1..Len(doc.files) |->
                     IF doc.files[i].filename = name
                     THEN File(name, text) ELSE doc.files[i]]]
  ELSE [files |-> Append(doc.files, File(name, text))]

\* if (!gistId || !githubToken) return;   (fail-soft revisions only)
MissingConfig(r) ==
  /\ pc[r] = "get"
  /\ ~env
  /\ variant \in FailSoft
  /\ Return(r, "noConfig")
  /\ UNCHANGED <<config, now, gist, edits, feedVars, callVars, readVars,
                 writeVars>>

\* gist = await octokit.gists.get(...) resolves
GetOk(r) ==
  /\ pc[r] = "get"
  /\ env
  /\ fetched' = [fetched EXCEPT ![r] = gist]
  /\ pc' = [pc EXCEPT ![r] = "compare"]
  /\ UNCHANGED <<config, now, gist, edits, feedVars, callVars, filename,
                 readFailed, writeVars, result>>

\* variation: after a rejected read the function goes on to the write
GetFailGoesOn(r) ==
  /\ pc[r] = "get"
  /\ env \/ variant \notin FailSoft
  /\ readFailed' = [readFailed EXCEPT ![r] = TRUE]
  /\ pc' = [pc EXCEPT ![r] = "update"]
  /\ UNCHANGED <<config, now, gist, edits, feedVars, callVars, fetched,
                 filename, writeVars, result>>

\* gists.get rejects: the fail-soft revisions return; the others log, go on
\* and throw a TypeError on gist.data with gist undefined
GetFail(r) ==
  /\ pc[r] = "get"
  /\ env \/ variant \notin FailSoft
  /\ readFailed' = [readFailed EXCEPT ![r] = TRUE]
  /\ IF variant \in FailSoft
     THEN Return(r, "readFailed") ELSE Throw(r, "readFailed")
  /\ UNCHANGED <<config, now, gist, edits, feedVars, callVars, fetched,
                 filename, writeVars>>

\* variation: no comparison, the new text is always written
CompareAlwaysWrites(r) ==
  /\ pc[r] = "compare"
  /\ IF fetched[r].files = <<>>
     THEN /\ Throw(r, "noFile")
          /\ UNCHANGED filename
     ELSE /\ filename' = [filename EXCEPT ![r] = fetched[r].files[1].filename]
          /\ pc' = [pc EXCEPT ![r] = "update"]
          /\ UNCHANGED result
  /\ UNCHANGED <<config, now, gist, edits, feedVars, callVars, fetched,
                 readFailed, writeVars>>

\* const filename = Object.keys(gist.data.files)[0]; the comparison with the
\* new text.  Without a file, files[undefined].content throws a TypeError.
Compare(r) ==
  /\ pc[r] = "compare"
  /\ IF fetched[r].files = <<>>
     THEN /\ Throw(r, "noFile")
          /\ UNCHANGED filename
     ELSE /\ filename' = [filename EXCEPT ![r] = fetched[r].files[1].filename]
          /\ IF fetched[r].files[1].content = status[r]
             THEN Return(r, "unchanged")
             ELSE /\ pc' = [pc EXCEPT ![r] = "update"]
                  /\ UNCHANGED result
  /\ UNCHANGED <<config, now, gist, edits, feedVars, callVars, fetched,
                 readFailed, writeVars>>

\* variation: a conditional write, applied only while the store still holds
\* the document the run read
UpdateOkIfUnchanged(r) ==
  /\ pc[r] = "update"
  /\ writes' = [writes EXCEPT ![r] = @ + 1]
  /\ written' = [written EXCEPT ![r] = status[r]]
  /\ gist' = IF gist = fetched[r]
             THEN UpdateFile(gist, filename[r], status[r]) ELSE gist
  /\ Return(r, "updated")
  /\ UNCHANGED <<config, now, edits, feedVars, callVars, readVars>>

\* await octokit.gists.update(...) resolves
UpdateOk(r) ==
  /\ pc[r] = "update"
  /\ writes' = [writes EXCEPT ![r] = @ + 1]
  /\ written' = [written EXCEPT ![r] = status[r]]
  /\ gist' = UpdateFile(gist, filename[r], status[r])
  /\ Return(r, "updated")
  /\ UNCHANGED <<config, now, edits, feedVars, callVars, readVars>>

\* variation: a rejected write is not caught inside updateGist
UpdateFailThrows(r) ==
  /\ pc[r] = "update"
  /\ writes' = [writes EXCEPT ![r] = @ + 1]
  /\ written' = [written EXCEPT ![r] = status[r]]
  /\ Throw(r, "rejected")
  /\ UNCHANGED <<config, now, gist, edits, feedVars, callVars, readVars>>

\* gists.update rejects: logged, not retried
UpdateFail(r) ==
  /\ pc[r] = "update"
  /\ writes' = [writes EXCEPT ![r] = @ + 1]
  /\ written' = [written EXCEPT ![r] = status[r]]
  /\ Return(r, "rejected")
  /\ UNCHANGED <<config, now, gist, edits, feedVars, callVars, readVars>>

\* ------------------------------------------------------------------------
\* Environment
\* ------------------------------------------------------------------------

\* another party edits the remote document
OtherEdit ==
  /\ edits < MaxEdits
  /\ edits' = edits + 1
  /\ \E d \in RemoteDocs : d # gist /\ gist' = d
  /\ UNCHANGED <<config, now, pc, feedVars, callVars, readVars, writeVars,
                 result>>

\* time passes; the clock is only read at the start of the scan, so the
\* model moves it between runs
Tick ==
  /\ \A r \in Runs : pc[r] \in {"idle", "done"}
  /\ \E d \in NowDates : d > now /\ now' = d
  /\ UNCHANGED <<config, gist, edits, pc, feedVars, callVars, readVars,
                 writeVars, result>>

RunStep(r) ==
  \/ Start(r)
  \/ FetchOk(r)
  \/ FetchFail(r)
  \/ ParseOk(r)
  \/ Parse1Fail(r)
  \/ Parse2Fail(r)
  \/ ExtractAndFormat(r)
  \/ CatchFallback(r)
  \/ Finish(r)
  \/ MissingConfig(r)
  \/ GetOk(r)
  \/ GetFail(r)
  \/ Compare(r)
  \/ UpdateOk(r)
  \/ UpdateFail(r)

Next == (\E r \in Runs : RunStep(r)) \/ OtherEdit \/ Tick

Spec == Init /\ [][Next]_vars

\* ------------------------------------------------------------------------
\* Properties of the publishing pipeline
\* ------------------------------------------------------------------------

\* the run gave up on the feed: the fetch failed or every parse attempt did
GaveUp(r) ==
  \/ fetchFailed[r]
  \/ parseFailed[r] = 2
  \/ variant = "part_001a" /\ parseFailed[r] = 1

Ended(r) == pc[r] \in {"return", "done"}

\* C1: in every run, once a remote read (gists.get) has failed, no remote
\* write (gists.update) is issued in that run, whichever path led to the
\* publish step.
C1_NoWriteAfterFailedRead ==
  \A r \in Runs : readFailed[r] => writes[r] = 0 /\ pc[r] # "update"

\* a run whose second parse failed, whose first updateGist call threw, and
\* whose second call, from the outer catch block, met a rejected read
C1_Witness ==
  \E r \in Runs :
    /\ readFailed[r] /\ pc[r] = "return"
    /\ caller[r] = "catch" /\ ~fetchFailed[r] /\ parseFailed[r] = 2

\* C2: one invocation of main() issues at most one remote write, also when
\* updateGist is called a second time from the outer catch block.
C2_AtMostOneWrite == \A r \in Runs : writes[r] <= 1

\* a run that called updateGist twice and wrote in the second call
C2_Witness ==
  \E r \in Runs :
    /\ pc[r] = "return" /\ caller[r] = "catch" /\ ~GaveUp(r)
    /\ writes[r] = 1

\* the store holds what run 1 published and nobody else touched it; run 2
\* saw the feed exactly when run 1 did
C3_Premise ==
  /\ pc[2] = "done"
  /\ edits = 0
  /\ result[1] \in {"updated", "unchanged"}
  /\ GaveUp(1) = GaveUp(2)

\* the six-month cutoff sorts the entries of the feed the same way in both
\* runs
C3_SameWindow ==
  \A i \in 1..Len(feed) :
    OnOrAfter(feed[i].pubDate, limit[1]) = OnOrAfter(feed[i].pubDate, limit[2])

\* C3 as stated: a second run against the same feed and an untouched store
\* issues no write.
C3_SecondRunWritesNothing == C3_Premise => writes[2] = 0

\* C3: a second run against the same feed and an untouched store issues no
\* write, provided no entry of the feed has crossed the six-month cutoff
\* between the two runs.
C3_SecondRunWritesNothingSameWindow ==
  C3_Premise /\ C3_SameWindow => writes[2] = 0

\* run 1 wrote a snapshot with a book in it, the clock moved, run 2 compared
\* and skipped
C3_Witness ==
  /\ C3_Premise /\ C3_SameWindow
  /\ variant = "index"
  /\ result[1] = "updated" /\ result[2] = "unchanged"
  /\ limit[1] # limit[2]
  /\ ~GaveUp(1)
  /\ \E i \in 1..Len(feed) : OnOrAfter(feed[i].pubDate, limit[2])

\* the two fallback literals joined, before any wrapping
FallbackText == (NotReading \o <<NL>>) \o <<NL>> \o NotRecently

\* C4: when the fetch fails or the feed cannot be parsed after the
\* sanitization retry, the run still reaches the publish step, with the
\* fallback snapshot made of the two literals, the same text on both paths.
C4_FallbackPublished ==
  \A r \in Runs :
    GaveUp(r) /\ pc[r] = "return" =>
      /\ result[r] # "none"
      /\ status[r] = FallbackText

\* C5: main() never throws to its caller, whatever fails and whatever the
\* remote document holds: an exception that leaves the try block or
\* updateGist takes main to its catch block or to its return, and after a
\* rejected write updateGist returns normally and main ends.
C5_MainNeverThrows ==
  \A r \in Runs :
    /\ pc[r] # "threw"
    /\ result[r] \in {"noFile", "readFailed"} => pc[r] \in {"catch", "get", "compare", "update", "return", "done"}
    /\ result[r] = "rejected" => writes[r] > 0 /\ Ended(r)

\* the second updateGist call met a document without files, and main returned
C5_Witness ==
  \E r \in Runs :
    /\ pc[r] = "return" /\ caller[r] = "catch" /\ result[r] = "noFile"

\* a rejected write, after which main returned
C5_WitnessRejected ==
  \E r \in Runs : pc[r] = "done" /\ result[r] = "rejected"

\* the snapshot a run renders from the entries of the feed at the current
\* clock
RenderedFromFeed == Render(variant, Extract(variant, feed, now))

\* C11: in a run whose fetch and parse both succeeded, a remote write carries
\* the snapshot rendered from the feed's entries, never the fallback of the
\* failure paths, whatever the remote store returned on the run's reads.
C11_GoodFeedWritesRendered ==
  \A r \in Runs :
    pc[r] = "return" /\ ~GaveUp(r) /\ writes[r] > 0 =>
      written[r] = RenderedFromFeed

\* ------------------------------------------------------------------------
\* The sanitizers on their own: every feed body up to a length, and some
\* longer ones, taken to the point where the parser receives the text
\* ------------------------------------------------------------------------

MaxXmlLen == 4

SeqsUpTo(A, n) == UNION {[1..k -> A] : k \in 0..n}

XmlAlphabet == {"&", "a", "x", "1", "#", ";", " "}

XmlInputs ==
  SeqsUpTo(XmlAlphabet, MaxXmlLen)
    \cup {CdataOpen \o mid \o CdataClose \o post :
            mid \in SeqsUpTo({"&", "a", ";"}, 2), post \in {<<>>, <<"&">>}}
    \cup { <<"a", "&", "a", "m", "p", ";", "a">>,
           <<"&", "a", "a", "a", "a", "a", "a", "a", "a", ";">>,
           <<"<", "a", " ", "/", ">", "&", "<", "/", "a", ">">>,
           <<"<", "a", ">", "&", "#", "x", "a", ";", "<", "/", "a", ">">> }

InitSanitize ==
  /\ variant \in Variants
  /\ env = TRUE
  /\ now = Aug31
  /\ feedBody \in XmlInputs
  /\ feed = <<>>
  /\ gist = [files |-> <<>>]
  /\ InitRuns

NextSanitize == Start(1) \/ FetchOk(1) \/ Parse1Fail(1)

SpecSanitize == InitSanitize /\ [][NextSanitize]_vars

\* the character-data blocks of a text, delimiters included
CdataBlocks(s) ==
  {b \in {SubSeq(s, i, j) : i \in 1..Len(s), j \in 1..Len(s)} :
     /\ Len(b) >= 4
     /\ OccursAt(b, CdataOpen, 1)
     /\ OccursAt(b, CdataClose, Len(b) - 1)
     /\ \A k \in 3..(Len(b) - 2) : ~OccursAt(b, CdataClose, k)}

\* C6: every character-data block of the input is found unchanged in what
\* the sanitizer hands to the parser.
C6_CdataUntouched ==
  pc[1] \in {"parse1", "parse2"} =>
    \A b \in CdataBlocks(body[1]) : Includes(xml[1], b)

\* a name, decimal or hexadecimal reference, without the "&", at position p
RECURSIVE AlnumRun(_, _)
AlnumRun(s, p) ==
  IF p > Len(s) THEN 0
  ELSE IF IsAlnum(s[p]) THEN 1 + AlnumRun(s, p + 1) ELSE 0

RECURSIVE DigitRun(_, _)
DigitRun(s, p) ==
  IF p > Len(s) THEN 0
  ELSE IF s[p] \in DigitChars THEN 1 + DigitRun(s, p + 1) ELSE 0

HexChars == DigitChars \cup {"a"}

RECURSIVE HexRun(_, _)
HexRun(s, p) ==
  IF p > Len(s) THEN 0
  ELSE IF s[p] \in HexChars THEN 1 + HexRun(s, p + 1) ELSE 0

EndsWithSemi(s, p, k) == k >= 1 /\ p + k <= Len(s) /\ s[p + k] = ";"

ValidReferenceAt(s, p) ==
  /\ p <= Len(s)
  /\ \/ s[p] \in Letters /\ EndsWithSemi(s, p, AlnumRun(s, p))
     \/ s[p] = "#" /\ EndsWithSemi(s, p + 1, DigitRun(s, p + 1))
     \/ /\ s[p] = "#" /\ p + 1 <= Len(s) /\ s[p + 1] = "x"
        /\ EndsWithSemi(s, p + 2, HexRun(s, p + 2))

\* the text with every "&" that starts no valid reference written "&amp;"
RECURSIVE EscapedFrom(_, _)
EscapedFrom(s, p) ==
  IF p > Len(s) THEN <<>>
  ELSE (IF s[p] = "&" /\ ~ValidReferenceAt(s, p + 1) THEN Amp ELSE <<s[p]>>)
         \o EscapedFrom(s, p + 1)

\* a text without the characters the tag repair may delete
RECURSIVE NoSlashNoSpace(_)
NoSlashNoSpace(s) ==
  IF s = <<>> THEN <<>>
  ELSE (IF IsWs(Head(s)) \/ Head(s) = "/" THEN <<>> ELSE <<Head(s)>>)
         \o NoSlashNoSpace(Tail(s))

\* C7: the sanitizer writes "&amp;" for every "&" that starts no valid
\* reference and leaves every "&" that starts one as it is (sanitizeXML at
\* the second parse; the ampersand replace of part_001 at its only parse).
C7_AmpersandsEscaped ==
  /\ pc[1] = "parse2" /\ variant \in FailSoft =>
       NoSlashNoSpace(xml[1]) = NoSlashNoSpace(EscapedFrom(body[1], 1))
  /\ pc[1] = "parse1" /\ variant = "part_001a" =>
       xml[1] = EscapedFrom(body[1], 1)

\* ------------------------------------------------------------------------
\* The extractor on its own: every feed of up to MaxItems items of a pool,
\* taken to the call of updateGist
\* ------------------------------------------------------------------------

MaxItems == 2

Reading(book, by, date) ==
  Item(<<"Bob", " ">> \o IsCurrentlyReading \o <<" ", "'">> \o book \o <<"'">>,
       by, <<>>, date)
Added(book, by, date) ==
  Item(<<"Bob", " ", "added", " ", "'">> \o book \o <<"'">>, by, <<>>, date)

ItemPool ==
  { ReadingDune,
    Reading(<<"Part">>, <<"by", " ", "Weir">>, NoPubDate),
    Reading(<<":", "Part">>, ByHerbert, Aug01),
    Added(<<"Dune">>, ByWeirStars, Apr05),
    Added(<<"Part">>, ByWeirStars, Aug01),
    Added(<<"Dune", ":", " ", "Part">>, ByWeirStars, Feb10),
    Added(<<"Dune">>, ByWeirStars, BadPubDate),
    Added(<<"Part">>, <<"stars", " ", "by", " ", " ">>, Mar10),
    Item(<<"Bob", " ", "added", " ", "\"", "Dune", "\"">>, ByWeirStars, <<>>, Aug01),
    Item(<<"Bob", " ", "added", " ", "'", "Dune", "'">>, <<>>, ByWeirStars, Mar10),
    SimpleReading,
    SimpleFinished,
    Item(CurrentlyReadingPhrase \o <<":", ":", " ", "by", " ", "Weir">>,
         <<>>, <<>>, NoPubDate) }

InitExtract ==
  /\ variant \in Variants
  /\ env = TRUE
  /\ now \in NowDates
  /\ feedBody \in Bodies
  /\ feed \in SeqsUpTo(ItemPool, MaxItems)
  /\ gist = [files |-> <<>>]
  /\ InitRuns

NextExtract == Start(1) \/ FetchOk(1) \/ ParseOk(1) \/ ExtractAndFormat(1)

SpecExtract == InitExtract /\ [][NextExtract]_vars

\* the scan of run r is over and its result is about to be published
Scanned(r) == pc[r] = "get" /\ caller[r] = "main"

CurrentRule(v, item) ==
  IF v = "index" THEN CurrentRuleIndex(item) ELSE CurrentRuleSimple(v, item)

CurrentOf(v, item) ==
  IF v = "index" THEN CurrentIndex(NoFacts, item)
  ELSE CurrentSimple(v, NoFacts, item)

CurrentMatches(r) ==
  {i \in 1..Len(items[r]) : CurrentRule(variant, items[r][i])}

\* C8: after the scan the currently-reading title and author are those of
\* the last item in feed order that matches the currently-reading rule, so
\* no matching item is left unexamined.
C8_LastCurrentWins ==
  \A r \in Runs :
    Scanned(r) =>
      IF CurrentMatches(r) = {}
      THEN facts[r].title = <<>> /\ facts[r].author = <<>>
      ELSE LET f == CurrentOf(variant, items[r][Max(CurrentMatches(r))])
           IN  facts[r].title = f.title /\ facts[r].author = f.author

\* the finished entries of a feed inside the window, in feed order
RECURSIVE Windowed(_, _)
Windowed(its, lim) ==
  IF its = <<>> THEN <<>>
  ELSE (IF /\ FinishedRuleIndex(Head(its))
           /\ Head(its).pubDate # BadPubDate
           /\ Head(its).pubDate >= lim
        THEN <<BookOf(Head(its))>> ELSE <<>>) \o Windowed(Tail(its), lim)

Orders(n) == {p \in [1..n -> 1..n] : \A i, j \in 1..n : p[i] = p[j] => i = j}

C9_WitnessExcluded ==
  /\ Scanned(1) /\ variant = "index"
  /\ \E i \in 1..Len(items[1]) :
       /\ FinishedRuleIndex(items[1][i])
       /\ items[1][i].pubDate > 0
       /\ items[1][i].pubDate < limit[1]
  /\ Len(facts[1].books) = 1

\* C10: the currently-reading line and every recently-read line is either
\* the fallback literal or carries a non-empty title and a non-empty author,
\* also after the subtitle is cut at the first colon.
C10_CompleteOrAbsent ==
  \A r \in Runs :
    Scanned(r) =>
      /\ \/ CurrentLine(variant, facts[r]) = NotReading \o <<NL>>
         \/ BeforeColon(facts[r].title) # <<>> /\ facts[r].author # <<>>
      /\ \A i \in 1..Len(RenderedBooks(variant, facts[r])) :
           LET b == RenderedBooks(variant, facts[r])[i]
           IN  BeforeColon(b.title) # <<>> /\ b.author # <<>>

\* C13: the start date of the currently-reading line comes from the entry
\* that supplies the title and the author: the line is the one that entry
\* alone would give, without a "(started ...)" suffix when it has no
\* publication timestamp.
C13_StartDateFromSameEntry ==
  \A r \in Runs :
    Scanned(r) /\ variant = "index" /\ CurrentMatches(r) # {} =>
      CurrentLine("index", facts[r]) =
        CurrentLine("index", CurrentOf("index", items[r][Max(CurrentMatches(r))]))

\* ------------------------------------------------------------------------
\* Two invocations at once: two processes run main() against the same
\* target, and their steps interleave freely
\* ------------------------------------------------------------------------

\* a process calls main(), whatever the other process is doing
StartConcurrent(r) ==
  /\ pc[r] = "idle"
  /\ pc' = [pc EXCEPT ![r] = "fetch"]
  /\ UNCHANGED <<config, now, gist, edits, feedVars, callVars, readVars,
                 writeVars, result>>

RaceFeeds ==
  { <<ReadingDune, AddedDune(Mar10)>>,
    <<SimpleFinished, SimpleReading>> }

InitRace ==
  /\ variant \in Variants
  /\ env \in BOOLEAN
  /\ now = Aug31
  /\ feedBody \in Bodies
  /\ feed \in RaceFeeds
  /\ gist \in RemoteDocs
  /\ InitRuns

RaceStep(r) ==
  \/ StartConcurrent(r)
  \/ FetchOk(r)
  \/ FetchFail(r)
  \/ ParseOk(r)
  \/ Parse1Fail(r)
  \/ Parse2Fail(r)
  \/ ExtractAndFormat(r)
  \/ CatchFallback(r)
  \/ Finish(r)
  \/ MissingConfig(r)
  \/ GetOk(r)
  \/ GetFail(r)
  \/ Compare(r)
  \/ UpdateOk(r)
  \/ UpdateFail(r)

NextRace == \E r \in Runs : RaceStep(r)

SpecRace == InitRace /\ [][NextRace]_vars

\* C12: the publisher reads, compares and writes without compare-and-swap:
\* a write that resolves replaces the content of the file whatever the
\* store holds at that moment, also when another run has written since this
\* run's read, so the other run's snapshot is overwritten (a lost update).
C12_WriteIgnoresLaterWrites ==
  [][\A r \in Runs :
       pc[r] = "update" /\ pc'[r] = "return" /\ result'[r] = "updated" =>
         gist' = UpdateFile(gist, filename[r], status[r])]_vars

\* both runs read the same document before either wrote, both writes
\* resolved, the snapshots differ, and the store holds that of run 2 only
C12_Witness ==
  /\ pc[1] = "return" /\ pc[2] = "return"
  /\ result[1] = "updated" /\ result[2] = "updated"
  /\ fetched[1] = fetched[2]
  /\ fetched[1].files[1].content \notin {written[1], written[2]}
  /\ written[1] # written[2]
  /\ gist.files[1].content = written[2]

====
